---- MODULE Spec2Model ----
(***************************************************************************)
(* Model of climada.entity.entity.Entity: a holder of four collections     *)
(* (exposures, impact_funcs, measures, disc_rates) with a type guard on    *)
(* attribute assignment, a constructor, read() and check().                *)
(*                                                                         *)
(* The four collection classes are external collaborators.  An object is   *)
(* a record [id, cls, st, file, desc]: its identity, its class, and what   *)
(* has been done to it (st) with which file name and description.          *)
(* An identity is a number no live object of the entity carries.  Whether  *)
(* a collaborator's constructor, read or check raises is an input of the   *)
(* operation (the set `bad` of attributes whose collaborator call raises). *)
(* Ghost variable `last` records the last operation, its arguments, the    *)
(* collaborator calls it made in order, and the error it propagated; nops  *)
(* counts the operations run on the constructed entity.                    *)
(***************************************************************************)
EXTENDS Integers, Sequences, FiniteSets, TLC

\* ---- bounds ----
MaxFiles == 1          \* caller-supplied file names are 1..MaxFiles
MaxBad == 2            \* collaborator calls that would raise, per operation
MaxOps == 2            \* operations run on a constructed entity

\* ---- values ----
NoneVal == 0 - 1                       \* None as a file name
NoDesc == "None"                       \* None as a description
ENT_DEF_XLS == 0                       \* the packaged default file
def_file == ENT_DEF_XLS                \* Entity.def_file
NoErr == "none"                        \* no exception propagated

Files == 1 .. MaxFiles                 \* caller-supplied file names
FileArgs == {NoneVal} \cup Files
DescArgs == {NoDesc, "a description"}

AttrNames == {"exposures", "impact_funcs", "measures", "disc_rates"}
OtherName == "tag"                     \* any attribute name outside the four

\* the class __init__ and read instantiate for each attribute
CollClass == [exposures |-> "Exposures", impact_funcs |-> "ImpactFuncs",
             measures |-> "Measures", disc_rates |-> "DiscRates"]

CollClasses == {"Exposures", "ImpactFuncs", "Measures", "DiscRates"}
SubClasses == {"SubExposures", "SubImpactFuncs", "SubMeasures", "SubDiscRates"}
PlainClasses == {"str"}
ValueClasses == CollClasses \cup SubClasses \cup PlainClasses

\* the classes a class is a (sub)class of
Mro(cls) ==
    CASE cls = "SubExposures" -> {"SubExposures", "Exposures"}
      [] cls = "SubImpactFuncs" -> {"SubImpactFuncs", "ImpactFuncs"}
      [] cls = "SubMeasures" -> {"SubMeasures", "Measures"}
      [] cls = "SubDiscRates" -> {"SubDiscRates", "DiscRates"}
      [] OTHER -> {cls}

isinstance(value, cls) == cls \in Mro(value.cls)

\* ---- objects ----
NoObj == [id |-> 0, cls |-> "NoObject", st |-> "unset",
          file |-> NoneVal, desc |-> NoDesc]

\* Cls(): a fresh, empty instance
CollNew(cls, id) ==
    [id |-> id, cls |-> cls, st |-> "new", file |-> NoneVal, desc |-> NoDesc]

\* Cls(file_name): a fresh instance built by the construction-from-file path
CollInit(cls, id, file_name) ==
    [id |-> id, cls |-> cls, st |-> "ctor", file |-> file_name, desc |-> NoDesc]

\* obj.read(file_name, description) returning normally
CollRead(obj, file_name, description) ==
    [obj EXCEPT !.st = "read", !.file = file_name, !.desc = description]

\* obj.read(file_name, description) raising: the object is left as the
\* interrupted read left it
CollReadFail(obj, file_name, description) ==
    [obj EXCEPT !.st = "failed", !.file = file_name, !.desc = description]

\* a value a caller may assign: an instance of a collection class, or a
\* plain value (a string)
MakeValue(cls, id) ==
    IF cls \in PlainClasses THEN [NoObj EXCEPT !.cls = cls, !.st = "plain"]
    ELSE CollNew(cls, id)

\* what an object holds, apart from its identity
Content(obj) == [cls |-> obj.cls, st |-> obj.st, file |-> obj.file, desc |-> obj.desc]

Call(attr, meth, file_name, description) ==
    [attr |-> attr, meth |-> meth, file |-> file_name, desc |-> description]

\* the sets of collaborator calls that raise, as an operation's input
BadSets == {b \in SUBSET AttrNames : Cardinality(b) <= MaxBad}

\* ---- state ----
VARIABLES status, attrs, other, nops, last
vars == <<status, attrs, other, nops, last>>

\* identities: the four attributes, the other attribute, one value in flight
Ids == 1 .. (Cardinality(AttrNames) + 2)
LiveIds(as) == {as[n].id : n \in AttrNames} \cup {other.id}
\* the identity of a newly created object: one that no live object has
FreshId(as) == CHOOSE i \in Ids \ LiveIds(as) :
                   \A j \in Ids \ LiveIds(as) : i <= j

NoLast == [op |-> "none", name |-> "", file |-> NoneVal, desc |-> NoDesc,
           bad |-> {}, calls |-> <<>>, err |-> NoErr, value |-> NoObj,
           viaRead |-> FALSE]

Init ==
    /\ status = "none"
    /\ attrs = [n \in AttrNames |-> NoObj]
    /\ other = NoObj
    /\ nops = 0
    /\ last = NoLast

\* __setattr__ with the measures branch left out
SetAttrRaises_NoMeasuresGuard(name, value) ==
    IF name = "exposures" THEN ~isinstance(value, "Exposures")
    ELSE IF name = "impact_funcs" THEN ~isinstance(value, "ImpactFuncs")
    ELSE IF name = "disc_rates" THEN ~isinstance(value, "DiscRates")
    ELSE FALSE

\* ---- Entity.__setattr__ ----
\* TRUE when __setattr__(name, value) raises ValueError
SetAttrRaises(name, value) ==
    IF name = "exposures" THEN ~isinstance(value, "Exposures")
    ELSE IF name = "impact_funcs" THEN ~isinstance(value, "ImpactFuncs")
    ELSE IF name = "measures" THEN ~isinstance(value, "Measures")
    ELSE IF name = "disc_rates" THEN ~isinstance(value, "DiscRates")
    ELSE FALSE

\* read that builds and reads each collection first and assigns it only
\* once its read has returned
ReadStep_AssignAfterRead(s, name, file_name, description, bad) ==
    IF s.err # NoErr THEN s
    ELSE LET obj == CollNew(CollClass[name], FreshId(s.attrs))
             new == Call(name, "new", NoneVal, NoDesc)
             rd == Call(name, "read", file_name, description)
         IN IF name \in bad
            THEN [s EXCEPT !.calls = @ \o <<new, rd>>, !.err = name]
            ELSE [s EXCEPT !.attrs[name] = CollRead(obj, file_name, description),
                           !.calls = @ \o <<new, rd>>]

\* read that leaves alone a collection that was already read from a file
ReadStep_SkipPopulated(s, name, file_name, description, bad) ==
    IF s.err # NoErr THEN s
    ELSE IF s.attrs[name].st = "read" THEN s
    ELSE LET obj == CollNew(CollClass[name], FreshId(s.attrs))
             new == Call(name, "new", NoneVal, NoDesc)
             rd == Call(name, "read", file_name, description)
         IN IF name \in bad
            THEN [s EXCEPT !.attrs[name] = CollReadFail(obj, file_name, description),
                           !.calls = @ \o <<new, rd>>,
                           !.err = name]
            ELSE [s EXCEPT !.attrs[name] = CollRead(obj, file_name, description),
                           !.calls = @ \o <<new, rd>>]

\* ---- Entity.read ----
\* One pair of statements of read: self.<name> = Cls(); self.<name>.read(...)
\* s is the execution state [attrs, calls, err, viaRead]; nothing runs once an
\* exception is propagating.
ReadStep(s, name, file_name, description, bad) ==
    IF s.err # NoErr THEN s
    ELSE LET obj == CollNew(CollClass[name], FreshId(s.attrs))
             new == Call(name, "new", NoneVal, NoDesc)
             rd == Call(name, "read", file_name, description)
         IN IF SetAttrRaises(name, obj)
            THEN [s EXCEPT !.err = "ValueError"]
            ELSE IF name \in bad
            THEN [s EXCEPT !.attrs[name] = CollReadFail(obj, file_name, description),
                           !.calls = @ \o <<new, rd>>,
                           !.err = name]
            ELSE [s EXCEPT !.attrs[name] = CollRead(obj, file_name, description),
                           !.calls = @ \o <<new, rd>>]

\* read in the order of the constructor's default branch
ReadBody_InitOrder(s, file_name, description, bad) ==
    LET s0 == [s EXCEPT !.viaRead = TRUE]
        s1 == ReadStep(s0, "exposures", file_name, description, bad)
        s2 == ReadStep(s1, "impact_funcs", file_name, description, bad)
        s3 == ReadStep(s2, "measures", file_name, description, bad)
        s4 == ReadStep(s3, "disc_rates", file_name, description, bad)
    IN s4

ReadBody(s, file_name, description, bad) ==
    LET s0 == [s EXCEPT !.viaRead = TRUE]
        s1 == ReadStep(s0, "exposures", file_name, description, bad)
        s2 == ReadStep(s1, "disc_rates", file_name, description, bad)
        s3 == ReadStep(s2, "impact_funcs", file_name, description, bad)
        s4 == ReadStep(s3, "measures", file_name, description, bad)
    IN s4

\* ---- Entity.__init__ ----
\* One statement of the default branch: self.<name> = Cls(self.def_file)
InitStep(s, name, bad) ==
    IF s.err # NoErr THEN s
    ELSE LET obj == CollInit(CollClass[name], FreshId(s.attrs), def_file)
             c == Call(name, "init", def_file, NoDesc)
         IN IF name \in bad
            THEN [s EXCEPT !.calls = Append(@, c), !.err = name]
            ELSE IF SetAttrRaises(name, obj)
            THEN [s EXCEPT !.calls = Append(@, c), !.err = "ValueError"]
            ELSE [s EXCEPT !.attrs[name] = obj, !.calls = Append(@, c)]

\* __init__ whose default branch calls read with the default file
InitBody_ReadsDefault(s, file_name, description, bad) ==
    IF file_name = NoneVal
    THEN ReadBody(s, def_file, description, bad)
    ELSE ReadBody(s, file_name, description, bad)

\* __init__ that does not pass the description on to read
InitBody_DropsDescription(s, file_name, description, bad) ==
    IF file_name = NoneVal
    THEN LET s1 == InitStep(s, "exposures", bad)
             s2 == InitStep(s1, "impact_funcs", bad)
             s3 == InitStep(s2, "measures", bad)
             s4 == InitStep(s3, "disc_rates", bad)
         IN s4
    ELSE ReadBody(s, file_name, NoDesc, bad)

InitBody(s, file_name, description, bad) ==
    IF file_name = NoneVal
    THEN LET s1 == InitStep(s, "exposures", bad)
             s2 == InitStep(s1, "impact_funcs", bad)
             s3 == InitStep(s2, "measures", bad)
             s4 == InitStep(s3, "disc_rates", bad)
         IN s4
    ELSE ReadBody(s, file_name, description, bad)

\* ---- Entity.check ----
\* check that validates a copy of the collection and stores the copy
CheckStep_StoresCopy(s, name, bad) ==
    IF s.err # NoErr THEN s
    ELSE [s EXCEPT !.attrs[name].id = FreshId(s.attrs),
                   !.calls = Append(@, Call(name, "check", NoneVal, NoDesc)),
                   !.err = IF name \in bad THEN name ELSE NoErr]

CheckStep(s, name, bad) ==
    IF s.err # NoErr THEN s
    ELSE [s EXCEPT !.calls = Append(@, Call(name, "check", NoneVal, NoDesc)),
                   !.err = IF name \in bad THEN name ELSE NoErr]

\* check in the order of read
CheckBody_ReadOrder(s, bad) ==
    LET s1 == CheckStep(s, "exposures", bad)
        s2 == CheckStep(s1, "disc_rates", bad)
        s3 == CheckStep(s2, "impact_funcs", bad)
        s4 == CheckStep(s3, "measures", bad)
    IN s4

\* check that forgets the measures
CheckBody_SkipsMeasures(s, bad) ==
    LET s1 == CheckStep(s, "disc_rates", bad)
        s2 == CheckStep(s1, "exposures", bad)
        s3 == CheckStep(s2, "impact_funcs", bad)
    IN s3

CheckBody(s, bad) ==
    LET s1 == CheckStep(s, "disc_rates", bad)
        s2 == CheckStep(s1, "exposures", bad)
        s3 == CheckStep(s2, "impact_funcs", bad)
        s4 == CheckStep(s3, "measures", bad)
    IN s4

Start == [attrs |-> attrs, calls |-> <<>>, err |-> NoErr, viaRead |-> FALSE]

\* ---- operations ----
\* Entity(file_name, description)
Construct(file_name, description, bad) ==
    /\ status = "none"
    /\ LET r == InitBody(Start, file_name, description, bad)
       IN /\ status' = IF r.err = NoErr THEN "ok" ELSE "failed"
          /\ attrs' = r.attrs
          /\ last' = [NoLast EXCEPT !.op = "construct", !.file = file_name,
                                    !.desc = description, !.bad = bad,
                                    !.calls = r.calls, !.err = r.err,
                                    !.viaRead = r.viaRead]
    /\ UNCHANGED <<other, nops>>

\* entity.read(file_name, description)
Read(file_name, description, bad) ==
    /\ status = "ok"
    /\ nops < MaxOps
    /\ nops' = nops + 1
    /\ LET r == ReadBody(Start, file_name, description, bad)
       IN /\ attrs' = r.attrs
          /\ last' = [NoLast EXCEPT !.op = "read", !.file = file_name,
                                    !.desc = description, !.bad = bad,
                                    !.calls = r.calls, !.err = r.err,
                                    !.viaRead = r.viaRead]
    /\ UNCHANGED <<status, other>>

\* entity.check()
Check(bad) ==
    /\ status = "ok"
    /\ nops < MaxOps
    /\ nops' = nops + 1
    /\ LET r == CheckBody(Start, bad)
       IN /\ attrs' = r.attrs
          /\ last' = [NoLast EXCEPT !.op = "check", !.bad = bad,
                                    !.calls = r.calls, !.err = r.err]
    /\ UNCHANGED <<status, other>>

\* assignment that stores the value and checks its type afterwards
SetAttr_ChecksAfterStore(name, cls) ==
    /\ status = "ok"
    /\ nops < MaxOps
    /\ nops' = nops + 1
    /\ LET value == MakeValue(cls, FreshId(attrs))
       IN /\ attrs' = IF name \in AttrNames
                       THEN [attrs EXCEPT ![name] = value] ELSE attrs
          /\ other' = IF name \in AttrNames THEN other ELSE value
          /\ last' = [NoLast EXCEPT !.op = "setattr", !.name = name,
                                    !.value = value,
                                    !.err = IF SetAttrRaises(name, value)
                                            THEN "ValueError" ELSE NoErr]
    /\ UNCHANGED status

\* entity.<name> = value, value being a freshly made instance of cls
SetAttr(name, cls) ==
    /\ status = "ok"
    /\ nops < MaxOps
    /\ nops' = nops + 1
    /\ LET value == MakeValue(cls, FreshId(attrs))
       IN /\ IF SetAttrRaises(name, value)
             THEN /\ UNCHANGED <<attrs, other>>
                  /\ last' = [NoLast EXCEPT !.op = "setattr", !.name = name,
                                            !.value = value, !.err = "ValueError"]
             ELSE /\ attrs' = IF name \in AttrNames
                              THEN [attrs EXCEPT ![name] = value] ELSE attrs
                  /\ other' = IF name \in AttrNames THEN other ELSE value
                  /\ last' = [NoLast EXCEPT !.op = "setattr", !.name = name,
                                            !.value = value]
    /\ UNCHANGED status

Next ==
    \/ \E f \in FileArgs, d \in DescArgs, bad \in BadSets : Construct(f, d, bad)
    \/ \E f \in Files, d \in DescArgs, bad \in BadSets : Read(f, d, bad)
    \/ \E bad \in BadSets : Check(bad)
    \/ \E n \in AttrNames \cup {OtherName}, c \in ValueClasses : SetAttr(n, c)

Spec == Init /\ [][Next]_vars

TypeOK ==
    /\ status \in {"none", "ok", "failed"}
    /\ nops \in 0 .. MaxOps
    /\ \A n \in AttrNames : attrs[n].id \in {0} \cup Ids
    /\ status = "ok" =>
           \A m, n \in AttrNames : m # n => attrs[m].id # attrs[n].id

\* ======================= the claims ===================================

\* the collection type declared for each attribute (class docstring)
DeclaredType == [exposures |-> "Exposures", impact_funcs |-> "ImpactFuncs",
                 measures |-> "Measures", disc_rates |-> "DiscRates"]
\* the orders the specification states for read and for check
StatedReadOrder == <<"exposures", "disc_rates", "impact_funcs", "measures">>
StatedCheckOrder == <<"disc_rates", "exposures", "impact_funcs", "measures">>

Pos(order, x) == CHOOSE i \in DOMAIN order : order[i] = x
\* how many collections of the order are processed: up to and including the
\* first one whose collaborator call raises
Reached(order, bad) ==
    IF \E i \in DOMAIN order : order[i] \in bad
    THEN CHOOSE i \in DOMAIN order :
             /\ order[i] \in bad
             /\ \A j \in DOMAIN order : order[j] \in bad => i <= j
    ELSE Len(order)
FirstError(order, bad) ==
    IF \E i \in DOMAIN order : order[i] \in bad
    THEN order[Reached(order, bad)] ELSE NoErr
\* what a fresh instance of cls holds after its own read(file_name, description)
IndependentRead(cls, file_name, description) ==
    Content(CollRead(CollNew(cls, 0), file_name, description))
Contents(as) == [n \in AttrNames |-> Content(as[n])]

\* C1: in every state of a successfully constructed entity, whatever reads,
\* checks and assignments have run and however they ended, each of the four
\* attributes holds an instance of its declared collection type or a subtype.
C1_TypeInvariant ==
    status = "ok" => \A n \in AttrNames : isinstance(attrs[n], DeclaredType[n])
\* a read has failed at its third collection and an attribute holds a subtype
C1_Witness ==
    /\ status = "ok"
    /\ last.op = "read" /\ last.err = "impact_funcs"
    /\ \E n \in AttrNames : attrs[n].cls \in SubClasses

\* C2: assigning to one of the four attributes a value that is not an
\* instance of the expected type raises ValueError and writes nothing: the
\* four attributes (and any other attribute) are as before.
C2_RejectedAssignment ==
    [][(/\ last'.op = "setattr"
        /\ last'.name \in AttrNames
        /\ ~isinstance(last'.value, DeclaredType[last'.name]))
       => (last'.err = "ValueError" /\ attrs' = attrs /\ other' = other)]_vars
\* an Exposures instance was assigned to disc_rates and rejected
C2_Witness ==
    /\ last.op = "setattr" /\ last.name = "disc_rates"
    /\ last.value.cls = "Exposures" /\ last.err = "ValueError"

C4_FileConstruct ==
    (last.op = "construct" /\ last.file # NoneVal /\ status = "ok")
    => \A n \in AttrNames :
           Content(attrs[n]) = IndependentRead(DeclaredType[n], last.file, last.desc)
C4_Witness ==
    /\ last.op = "construct" /\ last.file \in Files /\ last.desc # NoDesc
    /\ status = "ok"

\* C5: check validates in the order disc_rates, exposures, impact_funcs,
\* measures; with exactly one invalid collection it fails with that
\* collection's error, having validated exactly the collections up to it.
C5_CheckOrder ==
    last.op = "check"
    => /\ Len(last.calls) <= Len(StatedCheckOrder)
       /\ \A i \in DOMAIN last.calls :
              last.calls[i].meth = "check" /\ last.calls[i].attr = StatedCheckOrder[i]
       /\ \A b \in AttrNames :
              last.bad = {b} => /\ last.err = b
                                /\ Len(last.calls) = Pos(StatedCheckOrder, b)
C5_Witness ==
    /\ last.op = "check" /\ last.bad = {"impact_funcs"}
    /\ last.err = "impact_funcs"

\* C6: check on an entity whose four collections are all valid returns
\* without error, having called each collection's check exactly once.
C6_CheckAllValid ==
    (last.op = "check" /\ last.bad = {})
    => /\ last.err = NoErr
       /\ Len(last.calls) = Cardinality(AttrNames)
       /\ \A n \in AttrNames :
              Cardinality({i \in DOMAIN last.calls :
                  last.calls[i].attr = n /\ last.calls[i].meth = "check"}) = 1
C6_Witness ==
    last.op = "check" /\ last.bad = {} /\ last.err = NoErr /\ Len(last.calls) > 0

\* C7 as stated: after a read that fails partway, every attribute is either
\* freshly and completely read from the new file or the collection it held
\* before, and the attribute whose read failed holds its previous collection.
C7_FailedReadKeepsPrevious ==
    [][(last'.op = "read" /\ last'.err \in AttrNames)
       => /\ \A n \in AttrNames :
                 \/ attrs'[n] = attrs[n]
                 \/ /\ attrs'[n].id # attrs[n].id
                    /\ Content(attrs'[n]) =
                           IndependentRead(DeclaredType[n], last'.file, last'.desc)
          /\ attrs'[last'.err] = attrs[last'.err]]_vars

\* C7 amended: after a read that fails partway, the attributes ordered before
\* the failing one are freshly and completely read from the new file, those
\* ordered after it hold the collections they held before, and the failing
\* attribute holds a fresh instance of its type on which the failed read was
\* invoked; it no longer holds its previous collection.
C7_FailedReadLeavesNewInstance ==
    [][(last'.op = "read" /\ last'.err \in AttrNames)
       => LET k == Pos(StatedReadOrder, last'.err)
          IN \A i \in DOMAIN StatedReadOrder :
                 LET n == StatedReadOrder[i]
                 IN /\ i < k =>
                        /\ attrs'[n].id # attrs[n].id
                        /\ Content(attrs'[n]) =
                             IndependentRead(DeclaredType[n], last'.file, last'.desc)
                    /\ i > k => attrs'[n] = attrs[n]
                    /\ i = k =>
                        /\ attrs'[n].id # attrs[n].id
                        /\ isinstance(attrs'[n], DeclaredType[n])
                        /\ attrs'[n] = CollReadFail(CollNew(DeclaredType[n], attrs'[n].id),
                                                    last'.file, last'.desc)]_vars
\* a read failed at disc_rates on an entity built from the default file
C7_Witness ==
    /\ last.op = "read" /\ last.err = "disc_rates"
    /\ attrs["exposures"].st = "read"
    /\ attrs["disc_rates"].st = "failed"
    /\ attrs["measures"].st = "ctor"

\* C8: read processes exposures, disc_rates, impact_funcs, measures in this
\* order, each time assigning a fresh instance and then calling its read with
\* the given arguments; at the first read that fails it stops with that
\* collection's error, and the later collections are neither read nor
\* reassigned.
C8_ReadOrderAndAbort ==
    [][last'.op = "read"
       => LET k == Reached(StatedReadOrder, last'.bad)
          IN /\ last'.err = FirstError(StatedReadOrder, last'.bad)
             /\ Len(last'.calls) = 2 * k
             /\ \A i \in 1 .. k :
                    /\ last'.calls[2 * i - 1] =
                           Call(StatedReadOrder[i], "new", NoneVal, NoDesc)
                    /\ last'.calls[2 * i] =
                           Call(StatedReadOrder[i], "read", last'.file, last'.desc)
                    /\ attrs'[StatedReadOrder[i]].id # attrs[StatedReadOrder[i]].id
             /\ \A i \in DOMAIN StatedReadOrder :
                    (i > k /\ last'.err # NoErr)
                    => attrs'[StatedReadOrder[i]] = attrs[StatedReadOrder[i]]]_vars
C8_Witness ==
    /\ last.op = "read" /\ last.bad = {"impact_funcs"}
    /\ last.err = "impact_funcs" /\ Len(last.calls) = 6

\* C9: a successful read replaces all four attributes by collections that are
\* determined by the file name and description alone, whatever the entity
\* held before; a second read with the same arguments leaves the same
\* contents as the first.
C9_ReadReplacesWholesale ==
    [][(last'.op = "read" /\ last'.err = NoErr)
       => /\ \A n \in AttrNames :
                 /\ attrs'[n].id # attrs[n].id
                 /\ Content(attrs'[n]) =
                        IndependentRead(DeclaredType[n], last'.file, last'.desc)
          /\ (/\ last.op = "read" /\ last.err = NoErr
              /\ last.file = last'.file /\ last.desc = last'.desc)
             => Contents(attrs') = Contents(attrs)]_vars
\* a successful read of an entity that had been changed since it was built
C9_Witness ==
    /\ last.op = "read" /\ last.err = NoErr /\ nops = MaxOps
    /\ \A n \in AttrNames : attrs[n].st = "read"

\* C10: check, whether it returns or raises, rebinds none of the four
\* attributes: each refers to the same object after the call as before.
C10_CheckRebindsNothing ==
    [][last'.op = "check" => (attrs' = attrs /\ other' = other)]_vars
C10_Witness ==
    last.op = "check" /\ last.err = "exposures" /\ Len(last.calls) = 2
====
